---- MODULE Spec2Model ----
(***************************************************************************)
(* Enrollment / authentication flow of ddow/auth-project.                  *)
(*                                                                         *)
(* The repository holds two drafts of the same backend:                    *)
(*   "auth-project"  = src/auth-project/dashboard-app/backend/main.py      *)
(*   "dashboard-app" = src/dashboard-app/backend/main.py                   *)
(* Each is a FastAPI application over one DynamoDB table keyed by          *)
(* username.  The variable `variant` says which draft is deployed and      *)
(* `is_local` is the IS_LOCAL switch of the dashboard-app draft.           *)
(*                                                                         *)
(* A DynamoDB item is a function from attribute names to values; an        *)
(* attribute that was never SET is simply not in the item's domain, and    *)
(* dict.get(attr, default) is Get(item, attr, default).  The table is a    *)
(* function whose domain is the set of usernames that have an item.        *)
(*                                                                         *)
(* Not modelled: failures of the store itself (boto3 exceptions), logging. *)
(***************************************************************************)
EXTENDS Integers, Sequences, FiniteSets, TLC

\* ---------------------------------------------------------------- bounds
NUsers     == 2
NPasswords == 2
NSalts     == 2
NSecrets   == 2

\* INITIAL_PASSWORD = "InitialPass123!": passwords are numbered, this is #1
INITIAL_PASSWORD == 1

Variants  == {"auth-project", "dashboard-app"}
Users     == 1..NUsers
Passwords == 1..NPasswords
Salts     == 1..NSalts
\* a base32 secret is a non-empty string, modelled as a one-element sequence
Secrets   == {<<n>> : n \in 1..NSecrets}
\* Python None, and the absent bearer token
None      == <<>>
Tokens    == {"none", "bad", "valid"}

\* number of requests that can be in flight at once (concurrent Lambda
\* instances sharing the table)
NReqs      == 2

\* tokens are issued at instants 0..MaxIssue and presented up to Slack
\* seconds before and after the end of their lifetime
MaxIssue   == 2
Slack      == 2

VARIABLES variant,   \* which draft is deployed
          is_local,  \* IS_LOCAL of dashboard-app
          table,     \* the DynamoDB table: username -> item
          last,      \* the last completed call and its response
          run,       \* progress of the scripted enrollment run
          reqs,      \* requests in flight (interleaved runs)
          tok        \* a session token, and the checks made of it

vars == <<variant, is_local, table, last, run, reqs, tok>>

\* ------------------------------------------------------- leaf primitives

\* dict.get(attr, default)
Get(item, attr, default) == IF attr \in DOMAIN item THEN item[attr] ELSE default

\* Python truthiness of an optional string
Truthy(v) == v # None

\* pwd_context.hash: salted bcrypt; the hash string embeds its salt
get_password_hash(password, salt) ==
    [scheme |-> "bcrypt", salt |-> salt, digest |-> <<salt, password>>]

\* pwd_context.verify: re-derive the digest with the salt of the stored hash
verify_password(plain_password, hashed_password) ==
    hashed_password.digest = <<hashed_password.salt, plain_password>>

\* pyotp.TOTP(secret).now(): the six-digit code of the current time step
totp_now(secret) == 100000 + 37 * secret[1]

\* pyotp.TOTP(secret).verify(code)
totp_verify(secret, totp_code) == totp_code = totp_now(secret)

\* codes a client may submit: the current code of some secret, or a wrong one
Codes == {totp_now(s) : s \in Secrets} \cup {0}

\* create_jwt_token(username) of dashboard-app
create_jwt_token(username) == <<"jwt", username>>

\* Instants are whole seconds, the resolution of the "exp" of a JWT.
TOKEN_LIFETIME_HOURS == 24

JWT_SECRET == "your-secret-key"

\* keys a presented token may be signed with
Keys == {JWT_SECRET, "another-key"}

\* timedelta(hours=h), in seconds
timedelta_hours(h) == h * 60 * 60

\* jwt.encode(payload, key, algorithm="HS256"): the claims and the key that
\* signed them
jwt_encode(payload, key) ==
    [sub |-> payload.sub, exp |-> payload.exp, key |-> key]

\* create_jwt_token whose payload sets the expiry a number of minutes ahead
create_jwt_token_minutes_ahead(username, utcnow) ==
    jwt_encode([sub |-> username,
                exp |-> utcnow + TOKEN_LIFETIME_HOURS * 60],
               JWT_SECRET)

\* create_jwt_token(username) with the reading of datetime.utcnow() explicit
create_jwt_token_at(username, utcnow) ==
    jwt_encode([sub |-> username,
                exp |-> utcnow + timedelta_hours(TOKEN_LIFETIME_HOURS)],
               JWT_SECRET)

\* jwt.decode(token, key, algorithms=["HS256"]) at instant `now`: TRUE when it
\* returns, FALSE when it raises.  Whether a token is still good at the very
\* second of its "exp" depends on the PyJWT release installed.
jwt_decode(token, key, now, exp_inclusive) ==
    /\ token.key = key
    /\ IF exp_inclusive THEN now <= token.exp ELSE now < token.exp

\* ------------------------------------------------------------- responses
Resp(status, detail, flag, token, secret) ==
    [status |-> status, detail |-> detail, flag |-> flag,
     token |-> token, secret |-> secret]

HTTPException(status, detail) == Resp(status, detail, "", None, None)

NoWrite      == [kind |-> "none",   item |-> <<>>]
PutItem(i)   == [kind |-> "put",    item |-> i]
UpdateSet(s) == [kind |-> "update", item |-> s]

Result(resp, write) == [resp |-> resp, write |-> write]

\* update_item that applies its SET to every item of the table
ApplyWrite_every_item(tbl, username, write) ==
    IF write.kind = "none" THEN tbl
    ELSE LET old(x) == IF x \in DOMAIN tbl /\ write.kind = "update"
                       THEN tbl[x]
                       ELSE [a \in {"username"} |-> x]
             new(x) == [a \in DOMAIN old(x) \cup DOMAIN write.item |->
                           IF a \in DOMAIN write.item THEN write.item[a]
                           ELSE old(x)[a]]
         IN [x \in DOMAIN tbl \cup {username} |->
                IF x = username \/ write.kind = "update" THEN new(x)
                ELSE tbl[x]]

\* table.put_item / table.update_item (SET attributes; creates the item when
\* the key has none)
ApplyWrite(tbl, username, write) ==
    IF write.kind = "none" THEN tbl
    ELSE LET old == IF username \in DOMAIN tbl /\ write.kind = "update"
                    THEN tbl[username]
                    ELSE [a \in {"username"} |-> username]
             new == [a \in DOMAIN old \cup DOMAIN write.item |->
                        IF a \in DOMAIN write.item THEN write.item[a]
                        ELSE old[a]]
         IN [x \in DOMAIN tbl \cup {username} |->
                IF x = username THEN new ELSE tbl[x]]

\* --------------------------------------------------- auth-project draft

\* login that issues the token without looking at biometric_setup
auth_project_login_skips_biometric(tbl, username, password, secret) ==
    IF username \notin DOMAIN tbl
    THEN Result(HTTPException(401, "Invalid credentials"), NoWrite)
    ELSE LET user == tbl[username] IN
    IF ~verify_password(password, user["password_hash"])
    THEN Result(HTTPException(401, "Invalid credentials"), NoWrite)
    ELSE IF Get(user, "first_login", TRUE)
    THEN Result(Resp(200, "First login detected. Please change your password.",
                     "requires_change", None, None), NoWrite)
    ELSE IF ~Get(user, "totp_setup", FALSE)
    THEN Result(Resp(200, "TOTP setup required. Use secret: ",
                     "requires_totp", None, secret),
                UpdateSet([totp_secret |-> secret, totp_setup |-> FALSE]))
    ELSE Result(Resp(200, "bearer", "", <<"dummy-jwt-token">>, None), NoWrite)

\* login that looks at the enrollment stage before it verifies the password
auth_project_login_stage_before_password(tbl, username, password, secret) ==
    IF username \notin DOMAIN tbl
    THEN Result(HTTPException(401, "Invalid credentials"), NoWrite)
    ELSE LET user == tbl[username] IN
    IF Get(user, "first_login", TRUE)
    THEN Result(Resp(200, "First login detected. Please change your password.",
                     "requires_change", None, None), NoWrite)
    ELSE IF ~Get(user, "totp_setup", FALSE)
    THEN Result(Resp(200, "TOTP setup required. Use secret: ",
                     "requires_totp", None, secret),
                UpdateSet([totp_secret |-> secret, totp_setup |-> FALSE]))
    ELSE IF ~verify_password(password, user["password_hash"])
    THEN Result(HTTPException(401, "Invalid credentials"), NoWrite)
    ELSE IF ~Get(user, "biometric_setup", FALSE)
    THEN Result(Resp(200, "Biometric setup required. Contact admin.",
                     "requires_biometric", None, None), NoWrite)
    ELSE Result(Resp(200, "bearer", "", <<"dummy-jwt-token">>, None), NoWrite)

auth_project_login(tbl, username, password, secret) ==
    IF username \notin DOMAIN tbl
    THEN Result(HTTPException(401, "Invalid credentials"), NoWrite)
    ELSE LET user == tbl[username] IN
    IF ~verify_password(password, user["password_hash"])
    THEN Result(HTTPException(401, "Invalid credentials"), NoWrite)
    ELSE IF Get(user, "first_login", TRUE)
    THEN Result(Resp(200, "First login detected. Please change your password.",
                     "requires_change", None, None), NoWrite)
    ELSE IF ~Get(user, "totp_setup", FALSE)
    THEN Result(Resp(200, "TOTP setup required. Use secret: ",
                     "requires_totp", None, secret),
                UpdateSet([totp_secret |-> secret, totp_setup |-> FALSE]))
    ELSE IF ~Get(user, "biometric_setup", FALSE)
    THEN Result(Resp(200, "Biometric setup required. Contact admin.",
                     "requires_biometric", None, None), NoWrite)
    ELSE Result(Resp(200, "bearer", "", <<"dummy-jwt-token">>, None), NoWrite)

auth_project_change_password(tbl, username, old_password, new_password, salt) ==
    IF username \notin DOMAIN tbl
    THEN Result(HTTPException(401, "Invalid credentials"), NoWrite)
    ELSE LET user == tbl[username] IN
    IF ~verify_password(old_password, user["password_hash"])
    THEN Result(HTTPException(401, "Invalid credentials"), NoWrite)
    ELSE IF Get(user, "first_login", TRUE)
    THEN Result(Resp(200, "Password changed. Proceed to TOTP setup.",
                     "", None, None),
                UpdateSet([password_hash |-> get_password_hash(new_password, salt),
                           first_login |-> FALSE]))
    ELSE Result(HTTPException(403, "Password change only allowed on first login"),
                NoWrite)

auth_project_setup_totp(tbl, username, totp_code, token) ==
    IF token = "none"
    THEN Result(HTTPException(401, "Not authenticated"), NoWrite)
    ELSE IF username \notin DOMAIN tbl
            \/ ~Truthy(Get(tbl[username], "totp_secret", None))
    THEN Result(HTTPException(400, "TOTP not initialized"), NoWrite)
    ELSE IF ~totp_verify(tbl[username]["totp_secret"], totp_code)
    THEN Result(HTTPException(401, "Invalid TOTP code"), NoWrite)
    ELSE Result(Resp(200, "TOTP setup complete. Proceed to biometric setup.",
                     "", None, None),
                UpdateSet([totp_setup |-> TRUE]))

auth_project_setup_biometric(tbl, username, token, idp_ok) ==
    IF token = "none"
    THEN Result(HTTPException(401, "Not authenticated"), NoWrite)
    ELSE IF username \notin DOMAIN tbl
            \/ ~Get(tbl[username], "totp_setup", FALSE)
    THEN Result(HTTPException(400, "Complete TOTP setup first"), NoWrite)
    ELSE IF ~idp_ok
    THEN Result(HTTPException(500, "Internal Server Error"), NoWrite)
    ELSE Result(Resp(200, "Biometric setup complete. Login with biometrics next time.",
                     "", None, None),
                UpdateSet([biometric_setup |-> TRUE]))

\* --------------------------------------------------- dashboard-app draft

\* the item written by login for an unseen username (local mode)
NewUserItem(username, password, salt) ==
    [username |-> username,
     password |-> get_password_hash(password, salt),
     requires_change |-> TRUE,
     totp_secret |-> None,
     biometric_key |-> None]

\* login after `user` has been resolved (lines 140-163)
dashboard_app_login_checks(user, username, password) ==
    IF ~verify_password(password, user["password"])
    THEN HTTPException(401, "Invalid credentials")
    ELSE IF Get(user, "requires_change", FALSE)
    THEN Resp(200, "First login detected. Please change your password.",
              "requires_change", None, None)
    ELSE IF Truthy(Get(user, "totp_secret", None))
    THEN Resp(200, "TOTP required", "requires_totp", None, None)
    ELSE Resp(200, "Login successful", "", create_jwt_token(username), None)

\* login that re-hashes the password of an existing record after verifying it
dashboard_app_login_rehashes(local, tbl, username, password, salt, idp_ok) ==
    IF username \in DOMAIN tbl
    THEN Result(dashboard_app_login_checks(tbl[username], username, password),
                IF verify_password(password, tbl[username]["password"])
                THEN UpdateSet([password |-> get_password_hash(password, salt)])
                ELSE NoWrite)
    ELSE IF local
    THEN LET item == NewUserItem(username, password, salt) IN
         Result(dashboard_app_login_checks(item, username, password),
                PutItem(item))
    ELSE IF ~idp_ok
    THEN Result(HTTPException(500, "Internal server error"), NoWrite)
    ELSE Result(HTTPException(400, "User creation failed"), NoWrite)

dashboard_app_login(local, tbl, username, password, salt, idp_ok) ==
    IF username \in DOMAIN tbl
    THEN Result(dashboard_app_login_checks(tbl[username], username, password),
                NoWrite)
    ELSE IF local
    THEN LET item == NewUserItem(username, password, salt) IN
         Result(dashboard_app_login_checks(item, username, password),
                PutItem(item))
    ELSE IF ~idp_ok
    THEN Result(HTTPException(500, "Internal server error"), NoWrite)
    ELSE Result(HTTPException(400, "User creation failed"), NoWrite)

\* the HTTPException(401) raised inside the try block is caught by the
\* handler's own `except Exception` and replaced by a 500
dashboard_app_change_password(tbl, username, old_password, new_password, salt, secret) ==
    IF username \notin DOMAIN tbl
       \/ ~verify_password(old_password, tbl[username]["password"])
    THEN Result(HTTPException(500, "Internal server error"), NoWrite)
    ELSE Result(Resp(200, "Password changed. Proceed to TOTP setup.",
                     "", None, secret),
                UpdateSet([password |-> get_password_hash(new_password, salt),
                           requires_change |-> FALSE,
                           totp_secret |-> secret]))

dashboard_app_setup_totp(local, tbl, username, totp_code, token) ==
    IF token = "none"
    THEN Result(HTTPException(422, "Field required"), NoWrite)
    ELSE IF ~local /\ token # "valid"
    THEN Result(HTTPException(500, "Internal server error"), NoWrite)
    ELSE IF username \notin DOMAIN tbl
    THEN Result(HTTPException(401, "User not found"), NoWrite)
    ELSE IF "totp_secret" \notin DOMAIN tbl[username]
    THEN Result(HTTPException(500, "Internal server error"), NoWrite)
    ELSE IF ~Truthy(tbl[username]["totp_secret"])
    THEN Result(HTTPException(400, "TOTP secret not found"), NoWrite)
    ELSE IF ~totp_verify(tbl[username]["totp_secret"], totp_code)
    THEN Result(HTTPException(401, "Invalid TOTP code"), NoWrite)
    ELSE Result(Resp(200, "TOTP setup complete. Proceed to biometric setup.",
                     "", None, None), NoWrite)

dashboard_app_setup_biometric(local, tbl, username, token) ==
    IF token = "none"
    THEN Result(HTTPException(422, "Field required"), NoWrite)
    ELSE IF ~local /\ token # "valid"
    THEN Result(HTTPException(500, "Internal server error"), NoWrite)
    ELSE IF username \notin DOMAIN tbl
    THEN Result(HTTPException(401, "User not found"), NoWrite)
    ELSE Result(Resp(200, "Biometric setup complete. Login with biometrics next time.",
                     "", None, None),
                UpdateSet([biometric_key |-> <<"mock-biometric-key">>]))

\* ------------------------------------------------------ initial contents

\* An account provisioned by the administrator before its first login.
\* auth-project never creates items itself: the item holds the hash of
\* INITIAL_PASSWORD and nothing else.  dashboard-app items have the shape
\* its own login writes.
ProvisionedItem(v, username, salt) ==
    IF v = "auth-project"
    THEN [username |-> username,
          password_hash |-> get_password_hash(INITIAL_PASSWORD, salt)]
    ELSE NewUserItem(username, INITIAL_PASSWORD, salt)

\* which usernames are provisioned, and the salt of each initial hash
InitSalts == UNION {[D -> Salts] : D \in SUBSET Users}

NoCall == [op |-> "none", username |-> 0, password |-> 0, new_password |-> 0,
           code |-> 0, token |-> "none", resp |-> HTTPException(0, "")]

Call(op, username, password, new_password, code, token, resp) ==
    [op |-> op, username |-> username, password |-> password,
     new_password |-> new_password, code |-> code, token |-> token,
     resp |-> resp]

NoToken == [issued |-> FALSE, sub |-> 0, iat |-> 0,
            jwt |-> [sub |-> 0, exp |-> 0, key |-> ""],
            exp_inclusive |-> FALSE, checks |-> <<>>]

NoRun == [step |-> 0, username |-> 0, password |-> 0, new_password |-> 0,
          resps |-> <<>>]

IdleReq == [pc |-> "idle", op |-> "none", username |-> 0, password |-> 0,
            snap |-> <<>>, resp |-> HTTPException(0, "")]

InitDeployment ==
    /\ variant \in Variants
    /\ is_local \in (IF variant = "dashboard-app" THEN BOOLEAN ELSE {FALSE})
    /\ \E salts \in InitSalts :
          table = [u \in DOMAIN salts |-> ProvisionedItem(variant, u, salts[u])]

Init ==
    /\ InitDeployment
    /\ last = NoCall
    /\ run = NoRun
    /\ reqs = [i \in 1..NReqs |-> IdleReq]
    /\ tok = NoToken

\* ------------------------------------------- operations (whole handlers)

Finish(username, r, call) ==
    /\ table' = ApplyWrite(table, username, r.write)
    /\ last' = call
    /\ UNCHANGED <<variant, is_local, run, reqs, tok>>

AuthLogin ==
    /\ variant = "auth-project"
    /\ \E username \in Users, password \in Passwords, secret \in Secrets :
         LET r == auth_project_login(table, username, password, secret) IN
         Finish(username, r,
                Call("login", username, password, 0, 0, "none", r.resp))

AuthChangePassword ==
    /\ variant = "auth-project"
    /\ \E username \in Users, old \in Passwords, new \in Passwords, salt \in Salts :
         LET r == auth_project_change_password(table, username, old, new, salt) IN
         Finish(username, r,
                Call("change_password", username, old, new, 0, "none", r.resp))

AuthSetupTotp ==
    /\ variant = "auth-project"
    /\ \E username \in Users, code \in Codes, token \in Tokens :
         LET r == auth_project_setup_totp(table, username, code, token) IN
         Finish(username, r,
                Call("setup_totp", username, 0, 0, code, token, r.resp))

AuthSetupBiometric ==
    /\ variant = "auth-project"
    /\ \E username \in Users, token \in Tokens, idp_ok \in BOOLEAN :
         LET r == auth_project_setup_biometric(table, username, token, idp_ok) IN
         Finish(username, r,
                Call("setup_biometric", username, 0, 0, 0, token, r.resp))

DashLogin ==
    /\ variant = "dashboard-app"
    /\ \E username \in Users, password \in Passwords, salt \in Salts,
          idp_ok \in BOOLEAN :
         LET r == dashboard_app_login(is_local, table, username, password,
                                      salt, idp_ok) IN
         Finish(username, r,
                Call("login", username, password, 0, 0, "none", r.resp))

DashChangePassword ==
    /\ variant = "dashboard-app"
    /\ \E username \in Users, old \in Passwords, new \in Passwords,
          salt \in Salts, secret \in Secrets :
         LET r == dashboard_app_change_password(table, username, old, new,
                                                salt, secret) IN
         Finish(username, r,
                Call("change_password", username, old, new, 0, "none", r.resp))

DashSetupTotp ==
    /\ variant = "dashboard-app"
    /\ \E username \in Users, code \in Codes, token \in Tokens :
         LET r == dashboard_app_setup_totp(is_local, table, username, code, token) IN
         Finish(username, r,
                Call("setup_totp", username, 0, 0, code, token, r.resp))

DashSetupBiometric ==
    /\ variant = "dashboard-app"
    /\ \E username \in Users, token \in Tokens :
         LET r == dashboard_app_setup_biometric(is_local, table, username, token) IN
         Finish(username, r,
                Call("setup_biometric", username, 0, 0, 0, token, r.resp))

Next ==
    \/ AuthLogin
    \/ AuthChangePassword
    \/ AuthSetupTotp
    \/ AuthSetupBiometric
    \/ DashLogin
    \/ DashChangePassword
    \/ DashSetupTotp
    \/ DashSetupBiometric

Spec == Init /\ [][Next]_vars

\* ------------------------------------------------------------------------
\* The record fields of the specification, read off an item of either draft.
\* dashboard-app keeps no attribute that records a verified TOTP code.

password_hash_of(item) ==
    IF variant = "auth-project" THEN item["password_hash"] ELSE item["password"]

requires_password_change(item) ==
    IF variant = "auth-project" THEN Get(item, "first_login", TRUE)
    ELSE Get(item, "requires_change", FALSE)

totp_secret_of(item) == Get(item, "totp_secret", None)

totp_confirmed(item) ==
    IF variant = "auth-project" THEN Get(item, "totp_setup", FALSE) ELSE FALSE

biometric_registered(item) ==
    IF variant = "auth-project" THEN Get(item, "biometric_setup", FALSE)
    ELSE Truthy(Get(item, "biometric_key", None))

Authenticated(item) ==
    /\ ~requires_password_change(item)
    /\ totp_confirmed(item)
    /\ biometric_registered(item)

\* the handler of the deployed draft
login(tbl, username, password, salt, secret, idp_ok) ==
    IF variant = "auth-project"
    THEN auth_project_login(tbl, username, password, secret)
    ELSE dashboard_app_login(is_local, tbl, username, password, salt, idp_ok)

change_password(tbl, username, old_password, new_password, salt, secret) ==
    IF variant = "auth-project"
    THEN auth_project_change_password(tbl, username, old_password, new_password, salt)
    ELSE dashboard_app_change_password(tbl, username, old_password, new_password,
                                       salt, secret)

setup_totp(tbl, username, totp_code, token) ==
    IF variant = "auth-project"
    THEN auth_project_setup_totp(tbl, username, totp_code, token)
    ELSE dashboard_app_setup_totp(is_local, tbl, username, totp_code, token)

setup_biometric(tbl, username, token, idp_ok) ==
    IF variant = "auth-project"
    THEN auth_project_setup_biometric(tbl, username, token, idp_ok)
    ELSE dashboard_app_setup_biometric(is_local, tbl, username, token)

\* ------------------------------------------------------------------------
\* The scripted enrollment run: one client, one username that has no record,
\* the six calls in order.  The identity provider is up, the client presents
\* a bearer token, and to setup_totp it submits the current code of the
\* secret stored for it.

ScenarioInit ==
    /\ InitDeployment
    /\ last = NoCall
    /\ reqs = [i \in 1..NReqs |-> IdleReq]
    /\ tok = NoToken
    /\ \E u \in Users \ DOMAIN table, p \in Passwords, p2 \in Passwords :
          run = [step |-> 0, username |-> u, password |-> p,
                 new_password |-> p2, resps |-> <<>>]

ScenarioStep(k, r, call) ==
    /\ table' = ApplyWrite(table, run.username, r.write)
    /\ run' = [run EXCEPT !.step = k, !.resps = Append(@, r.resp)]
    /\ last' = call
    /\ UNCHANGED <<variant, is_local, reqs, tok>>

ScenarioFirstLogin ==
    /\ run.step = 0
    /\ \E salt \in Salts, secret \in Secrets :
         LET r == login(table, run.username, run.password, salt, secret, TRUE) IN
         ScenarioStep(1, r, Call("login", run.username, run.password, 0, 0,
                                 "none", r.resp))

ScenarioChangePassword ==
    /\ run.step = 1
    /\ \E salt \in Salts, secret \in Secrets :
         LET r == change_password(table, run.username, run.password,
                                  run.new_password, salt, secret) IN
         ScenarioStep(2, r, Call("change_password", run.username, run.password,
                                 run.new_password, 0, "none", r.resp))

ScenarioSecondLogin ==
    /\ run.step = 2
    /\ \E salt \in Salts, secret \in Secrets :
         LET r == login(table, run.username, run.new_password, salt, secret, TRUE) IN
         ScenarioStep(3, r, Call("login", run.username, run.new_password, 0, 0,
                                 "none", r.resp))

ScenarioSetupTotp ==
    /\ run.step = 3
    /\ LET secret == IF run.username \in DOMAIN table
                     THEN totp_secret_of(table[run.username]) ELSE None
           code == IF Truthy(secret) THEN totp_now(secret) ELSE 0
           r == setup_totp(table, run.username, code, "valid") IN
       ScenarioStep(4, r, Call("setup_totp", run.username, 0, 0, code,
                               "valid", r.resp))

ScenarioSetupBiometric ==
    /\ run.step = 4
    /\ LET r == setup_biometric(table, run.username, "valid", TRUE) IN
       ScenarioStep(5, r, Call("setup_biometric", run.username, 0, 0, 0,
                               "valid", r.resp))

ScenarioFinalLogin ==
    /\ run.step = 5
    /\ \E salt \in Salts, secret \in Secrets :
         LET r == login(table, run.username, run.new_password, salt, secret, TRUE) IN
         ScenarioStep(6, r, Call("login", run.username, run.new_password, 0, 0,
                                 "none", r.resp))

ScenarioNext ==
    \/ ScenarioFirstLogin
    \/ ScenarioChangePassword
    \/ ScenarioSecondLogin
    \/ ScenarioSetupTotp
    \/ ScenarioSetupBiometric
    \/ ScenarioFinalLogin

SpecScenario == ScenarioInit /\ [][ScenarioNext]_vars

\* ------------------------------------------------------------------------
\* Interleaved runs.  Every handler starts with get_user and writes, if at
\* all, with a later and unconditional put_item / update_item; another
\* request can run between the two store calls.  NReqs requests, each served
\* once, run against a table whose records are anywhere in their enrollment.
\* A request in flight holds the item it read (snap, a table with at most
\* its own username).

\* the table of one user after the first k calls of its enrollment:
\* change_password, login, setup_totp, setup_biometric
RECURSIVE EnrolledTo(_, _)
EnrolledTo(username, k) ==
    IF k = 0
    THEN [x \in {username} |-> ProvisionedItem(variant, username, 1)]
    ELSE LET t == EnrolledTo(username, k - 1)
             secret == <<1>>
             r == IF k = 1
                  THEN change_password(t, username, INITIAL_PASSWORD,
                                       NPasswords, 1, secret)
                  ELSE IF k = 2
                  THEN login(t, username, NPasswords, 1, secret, TRUE)
                  ELSE IF k = 3
                  THEN setup_totp(t, username, totp_now(secret), "valid")
                  ELSE setup_biometric(t, username, "valid", TRUE)
         IN ApplyWrite(t, username, r.write)

ConcInit ==
    /\ variant \in Variants
    /\ is_local \in (IF variant = "dashboard-app" THEN BOOLEAN ELSE {FALSE})
    /\ \E stage \in [Users -> -1..4] :
          table = [u \in {x \in Users : stage[x] >= 0} |->
                      EnrolledTo(u, stage[u])[u]]
    /\ last = NoCall
    /\ run = NoRun
    /\ reqs = [i \in 1..NReqs |-> IdleReq]
    /\ tok = NoToken

Snapshot(username) ==
    [x \in {username} \cap DOMAIN table |-> table[x]]

ConcOps == {"login", "change_password", "setup_totp", "setup_biometric"}

\* a request arrives and the handler runs up to and including get_user
ConcGetUser(i) ==
    /\ reqs[i].pc = "idle"
    /\ \E op \in ConcOps, username \in Users :
         reqs' = [reqs EXCEPT ![i] =
                    [IdleReq EXCEPT !.pc = "read", !.op = op,
                                    !.username = username,
                                    !.snap = Snapshot(username)]]
    /\ UNCHANGED <<variant, is_local, table, last, run, tok>>

\* the rest of the handler: decide on the item read, write, answer
ConcDone(i, password, r) ==
    /\ table' = ApplyWrite(table, reqs[i].username, r.write)
    /\ reqs' = [reqs EXCEPT ![i].pc = "done", ![i].password = password,
                            ![i].resp = r.resp]
    /\ UNCHANGED <<variant, is_local, last, run, tok>>

ConcLogin(i) ==
    /\ reqs[i].pc = "read"
    /\ reqs[i].op = "login"
    /\ \E password \in Passwords, salt \in Salts, secret \in Secrets,
          idp_ok \in BOOLEAN :
         LET r == login(reqs[i].snap, reqs[i].username, password, salt,
                        secret, idp_ok) IN
         IF r.write.kind = "put"
         THEN \* dashboard-app lines 121-128: put_item, then get_user again
              /\ table' = ApplyWrite(table, reqs[i].username, r.write)
              /\ reqs' = [reqs EXCEPT ![i].pc = "created",
                                      ![i].password = password]
              /\ UNCHANGED <<variant, is_local, last, run, tok>>
         ELSE ConcDone(i, password, r)

\* dashboard-app login after its put_item: the second get_user and the checks
ConcLoginReread(i) ==
    /\ reqs[i].pc = "created"
    /\ reqs' = [reqs EXCEPT
                  ![i].pc = "done",
                  ![i].resp = dashboard_app_login_checks(
                                  table[reqs[i].username], reqs[i].username,
                                  reqs[i].password)]
    /\ UNCHANGED <<variant, is_local, table, last, run, tok>>

ConcChangePassword(i) ==
    /\ reqs[i].pc = "read"
    /\ reqs[i].op = "change_password"
    /\ \E old \in Passwords, new \in Passwords, salt \in Salts,
          secret \in Secrets :
         ConcDone(i, old, change_password(reqs[i].snap, reqs[i].username,
                                          old, new, salt, secret))

ConcSetupTotp(i) ==
    /\ reqs[i].pc = "read"
    /\ reqs[i].op = "setup_totp"
    /\ \E code \in Codes, token \in Tokens :
         ConcDone(i, 0, setup_totp(reqs[i].snap, reqs[i].username, code, token))

ConcSetupBiometric(i) ==
    /\ reqs[i].pc = "read"
    /\ reqs[i].op = "setup_biometric"
    /\ \E token \in Tokens, idp_ok \in BOOLEAN :
         ConcDone(i, 0, setup_biometric(reqs[i].snap, reqs[i].username,
                                        token, idp_ok))

ConcNext ==
    \E i \in 1..NReqs :
        \/ ConcGetUser(i)
        \/ ConcLogin(i)
        \/ ConcLoginReread(i)
        \/ ConcChangePassword(i)
        \/ ConcSetupTotp(i)
        \/ ConcSetupBiometric(i)

SpecConc == ConcInit /\ [][ConcNext]_vars

\* ------------------------------------------------------------------------
\* Session tokens over time: dashboard-app outside local mode, a token made
\* by create_jwt_token and then presented to setup_biometric, whose first
\* statement decodes it.

TokenInit ==
    /\ InitDeployment
    /\ variant = "dashboard-app"
    /\ is_local = FALSE
    /\ last = NoCall
    /\ run = NoRun
    /\ reqs = [i \in 1..NReqs |-> IdleReq]
    /\ \E b \in BOOLEAN : tok = [NoToken EXCEPT !.exp_inclusive = b]

IssueToken ==
    /\ ~tok.issued
    /\ \E username \in Users, utcnow \in 0..MaxIssue :
         tok' = [tok EXCEPT !.issued = TRUE, !.sub = username, !.iat = utcnow,
                            !.jwt = create_jwt_token_at(username, utcnow)]
    /\ UNCHANGED <<variant, is_local, table, last, run, reqs>>

\* the instants at which the token issued at `iat` is presented
PresentTimes(iat) ==
    LET end == iat + timedelta_hours(24) IN
    {iat, end - 60, end + 60} \cup ((end - Slack)..(end + Slack))

\* setup_biometric(username, token) at instant `now`, the token being the
\* issued one or its claims signed with another key
PresentToken ==
    /\ tok.issued
    /\ Len(tok.checks) < 2
    /\ \E now \in PresentTimes(tok.iat), key \in Keys :
         /\ \A k \in DOMAIN tok.checks : tok.checks[k].at <= now
         /\ LET presented == [tok.jwt EXCEPT !.key = key]
                ok == jwt_decode(presented, JWT_SECRET, now, tok.exp_inclusive)
                r  == dashboard_app_setup_biometric(
                          is_local, table, tok.sub,
                          IF ok THEN "valid" ELSE "bad")
            IN /\ tok' = [tok EXCEPT !.checks =
                             Append(@, [at |-> now, key |-> key, ok |-> ok,
                                        status |-> r.resp.status])]
               /\ table' = ApplyWrite(table, tok.sub, r.write)
    /\ UNCHANGED <<variant, is_local, last, run, reqs>>

TokenNext ==
    \/ IssueToken
    \/ PresentToken

SpecToken == TokenInit /\ [][TokenNext]_vars

\* ------------------------------------------------------------------------
\* C1: a login response carries a session token only if the user's record is
\* in the Authenticated stage (password changed, TOTP confirmed, biometric
\* registered).
C1_TokenOnlyWhenAuthenticated ==
    (last.op = "login" /\ last.resp.token # None)
        => /\ last.username \in DOMAIN table
           /\ Authenticated(table[last.username])

C1_Witness ==
    /\ last.op = "login"
    /\ last.resp.token # None
    /\ last.username \in DOMAIN table
    /\ Authenticated(table[last.username])

\* C2: login for a username that has no record creates a record whose hash
\* is derived from the supplied password and whose requires_password_change
\* flag is true, and answers change-required with no token.
C2_UnseenLoginProvisions ==
    [][(last'.op = "login" /\ last'.username \notin DOMAIN table)
         => /\ last'.username \in DOMAIN table'
            /\ verify_password(last'.password,
                               password_hash_of(table'[last'.username]))
            /\ requires_password_change(table'[last'.username])
            /\ last'.resp.status = 200
            /\ last'.resp.flag = "requires_change"
            /\ last'.resp.token = None]_vars

\* C3: login on an existing record with a password that does not match the
\* stored hash fails with 401 "Invalid credentials" and leaves the whole
\* table as it was, in every stage and however often it is repeated.
C3_WrongPasswordRejected ==
    [][(/\ last'.op = "login"
        /\ last'.username \in DOMAIN table
        /\ ~verify_password(last'.password,
                            password_hash_of(table[last'.username])))
         => /\ last'.resp.status = 401
            /\ last'.resp.detail = "Invalid credentials"
            /\ last'.resp.token = None
            /\ table' = table]_vars

\* a failed login on a record that is past the first stage
C3_Witness ==
    /\ last.op = "login"
    /\ last.resp.status = 401
    /\ last.username \in DOMAIN table
    /\ ~verify_password(last.password, password_hash_of(table[last.username]))
    /\ ~requires_password_change(table[last.username])
    /\ Truthy(totp_secret_of(table[last.username]))

\* C4: change_password with the correct old password succeeds exactly while
\* requires_password_change is true (writing the new hash and clearing the
\* flag); afterwards it is rejected with 403 and changes nothing.
C4_ChangePasswordOnlyOnce ==
    [][(/\ last'.op = "change_password"
        /\ last'.username \in DOMAIN table
        /\ verify_password(last'.password,
                           password_hash_of(table[last'.username])))
         => IF requires_password_change(table[last'.username])
            THEN /\ last'.resp.status = 200
                 /\ verify_password(last'.new_password,
                                    password_hash_of(table'[last'.username]))
                 /\ ~requires_password_change(table'[last'.username])
            ELSE /\ last'.resp.status = 403
                 /\ table' = table]_vars

\* C5: once a record holds a TOTP secret no call replaces it by another, and
\* two consecutive TOTP-required logins refer to the same secret.
C5_SecretGeneratedOnce ==
    [][/\ \A u \in DOMAIN table :
            Truthy(totp_secret_of(table[u]))
               => totp_secret_of(table'[u]) = totp_secret_of(table[u])
       /\ (/\ last.op = "login" /\ last'.op = "login"
           /\ last.username = last'.username
           /\ last.resp.flag = "requires_totp"
           /\ last'.resp.flag = "requires_totp")
            => totp_secret_of(table'[last.username])
                 = totp_secret_of(table[last.username])]_vars

\* C6: the scripted run for a username with no record answers, in order,
\* change-required, success, TOTP-required, success, success, and at last a
\* response that carries a session token.
C6_EnrollmentCompletes ==
    run.step = 6
        => /\ run.resps[1].status = 200
           /\ run.resps[1].flag = "requires_change"
           /\ run.resps[2].status = 200
           /\ run.resps[3].status = 200
           /\ run.resps[3].flag = "requires_totp"
           /\ run.resps[4].status = 200
           /\ run.resps[5].status = 200
           /\ run.resps[6].status = 200
           /\ run.resps[6].token # None

\* C7: of two change_password requests for one username that both read the
\* record while requires_password_change was true and both supply its
\* correct old password, exactly one succeeds and the other is refused with
\* 409 (Conflict) or 403 (flow order); the hash is not written by both.
RacingChangePassword(i, j) ==
    /\ i # j
    /\ reqs[i].pc = "done" /\ reqs[j].pc = "done"
    /\ reqs[i].op = "change_password" /\ reqs[j].op = "change_password"
    /\ reqs[i].username = reqs[j].username
    /\ reqs[i].password = reqs[j].password
    /\ \A k \in {i, j} :
         /\ reqs[k].username \in DOMAIN reqs[k].snap
         /\ requires_password_change(reqs[k].snap[reqs[k].username])
         /\ verify_password(reqs[k].password,
                            password_hash_of(reqs[k].snap[reqs[k].username]))

C7_OneChangePasswordWins ==
    \A i \in 1..NReqs, j \in 1..NReqs :
        RacingChangePassword(i, j)
           => \/ /\ reqs[i].resp.status = 200
                 /\ reqs[j].resp.status \in {403, 409}
              \/ /\ reqs[j].resp.status = 200
                 /\ reqs[i].resp.status \in {403, 409}

\* C8: while requires_password_change is true, setup_totp and setup_biometric
\* are rejected and leave the record unchanged, and only change_password
\* clears the flag.
C8_SetupRejectedBeforePasswordChange ==
    [][/\ (/\ last'.op \in {"setup_totp", "setup_biometric"}
           /\ last'.username \in DOMAIN table
           /\ requires_password_change(table[last'.username]))
            => /\ last'.resp.status >= 400
               /\ table' = table
       /\ \A u \in DOMAIN table :
            (requires_password_change(table[u])
               /\ ~requires_password_change(table'[u]))
               => last'.op = "change_password"]_vars

\* C9: biometric_registered becomes true only on a record whose TOTP is
\* already confirmed; setup_biometric on any other record is rejected and
\* records nothing.
C9_BiometricNeedsConfirmedTotp ==
    [][/\ \A u \in DOMAIN table :
            (~biometric_registered(table[u]) /\ biometric_registered(table'[u]))
               => totp_confirmed(table[u])
       /\ (/\ last'.op = "setup_biometric"
           /\ last'.username \in DOMAIN table
           /\ ~totp_confirmed(table[last'.username]))
            => /\ last'.resp.status >= 400
               /\ table' = table]_vars

\* C10: setup_totp with an accepted bearer token answers 400 when the record
\* has no secret and 401 "Invalid TOTP code" when the code does not verify,
\* changing nothing; when the code verifies it stores totp_confirmed=true and
\* a following login with the right password is not answered TOTP-required.
C10_SetupTotpOutcome ==
    [][(/\ last'.op = "setup_totp"
        /\ last'.token = "valid"
        /\ last'.username \in DOMAIN table)
         => LET u == last'.username
                secret == totp_secret_of(table[u]) IN
            IF ~Truthy(secret)
            THEN last'.resp.status = 400 /\ table' = table
            ELSE IF ~totp_verify(secret, last'.code)
            THEN /\ last'.resp.status = 401
                 /\ last'.resp.detail = "Invalid TOTP code"
                 /\ table' = table
            ELSE /\ last'.resp.status = 200
                 /\ totp_confirmed(table'[u])
                 /\ \A p \in Passwords, s \in Secrets :
                      verify_password(p, password_hash_of(table'[u]))
                        => login(table', u, p, 1, s, TRUE).resp.flag
                             # "requires_totp"]_vars

\* C11: setup_totp and setup_biometric change a record only when the bearer
\* token is valid; with any other token the call is answered 401 (invalid
\* token) and the record stays as it was, in every deployment mode.
C11_SetupNeedsValidToken ==
    [][(/\ last'.op \in {"setup_totp", "setup_biometric"}
        /\ last'.token # "valid")
         => /\ last'.resp.status = 401
            /\ table' = table]_vars

\* C12: a failure is reported under its own kind: change_password with no
\* record or a wrong old password answers 401 "Invalid credentials", and a
\* setup call that fails on a bad token answers 401, never the generic 500.
C12_FailuresKeepTheirKind ==
    [][/\ (/\ last'.op = "change_password"
           /\ \/ last'.username \notin DOMAIN table
              \/ ~verify_password(last'.password,
                                  password_hash_of(table[last'.username])))
            => /\ last'.resp.status = 401
               /\ last'.resp.detail = "Invalid credentials"
       /\ (/\ last'.op \in {"setup_totp", "setup_biometric"}
           /\ last'.token = "bad"
           /\ last'.resp.status >= 400)
            => last'.resp.status \notin {422, 500}]_vars

\* C15: no stage is skipped: in every reachable record biometric_registered
\* implies totp_confirmed, and totp_confirmed implies a stored secret and
\* requires_password_change = false.
C15_NoStageSkipped ==
    \A u \in DOMAIN table :
       /\ biometric_registered(table[u]) => totp_confirmed(table[u])
       /\ totp_confirmed(table[u])
            => /\ Truthy(totp_secret_of(table[u]))
               /\ ~requires_password_change(table[u])

\* C17: the password hash of an existing record is rewritten only by a
\* successful change_password for that username; login on an existing
\* record, setup_totp and setup_biometric leave it unchanged.
C17_HashOnlyByChangePassword ==
    [][\A u \in DOMAIN table :
          /\ u \in DOMAIN table'
          /\ password_hash_of(table'[u]) # password_hash_of(table[u])
               => /\ last'.op = "change_password"
                  /\ last'.username = u
                  /\ last'.resp.status = 200]_vars

\* a login, a setup_totp or a setup_biometric has just written to a record
C17_Witness ==
    /\ last.op \in {"login", "setup_totp", "setup_biometric"}
    /\ last.username \in DOMAIN table
    /\ \/ last.resp.flag = "requires_totp"
       \/ last.op # "login" /\ last.resp.status = 200

\* C14: a write never lands on a record that changed since the request read
\* it (the request retries or fails with Conflict instead): whenever a
\* request writes, the record it read is still the stored one.
C14_NoWriteOnStaleRead ==
    [][\A i \in 1..NReqs :
          (/\ reqs[i].pc = "read"
           /\ reqs'[i].pc # "read"
           /\ table' # table)
            => reqs[i].snap = Snapshot(reqs[i].username)]_vars

\* C16: the stage of a record never goes backward, whatever the interleaving:
\* requires_password_change stays false once false, totp_confirmed and
\* biometric_registered stay true once true, and no record disappears.
C16_StageNeverGoesBack ==
    [][\A u \in DOMAIN table :
          /\ u \in DOMAIN table'
          /\ ~requires_password_change(table[u])
               => ~requires_password_change(table'[u])
          /\ totp_confirmed(table[u]) => totp_confirmed(table'[u])
          /\ biometric_registered(table[u])
               => biometric_registered(table'[u])]_vars

\* what a call of `op` for `u` answers and writes, for each of its inputs
OutcomeOf(op, tbl, u) ==
    IF op = "login"
    THEN [x \in Passwords \X Salts \X Secrets \X BOOLEAN |->
             login(tbl, u, x[1], x[2], x[3], x[4])]
    ELSE IF op = "change_password"
    THEN [x \in Passwords \X Passwords \X Salts \X Secrets |->
             change_password(tbl, u, x[1], x[2], x[3], x[4])]
    ELSE IF op = "setup_totp"
    THEN [x \in Codes \X Tokens |-> setup_totp(tbl, u, x[1], x[2])]
    ELSE [x \in Tokens \X BOOLEAN |-> setup_biometric(tbl, u, x[1], x[2])]

\* C18: calls for different usernames are independent under any
\* interleaving: a step of a request for u leaves the record (or absence) of
\* every other username as it was, and what the call answers and writes is
\* the same whatever records the other usernames have.
C18_UsernamesIndependent ==
    [][\A i \in 1..NReqs :
          reqs'[i] # reqs[i]
            => /\ \A x \in Users \ {reqs'[i].username} :
                    /\ x \in DOMAIN table' <=> x \in DOMAIN table
                    /\ x \in DOMAIN table => table'[x] = table[x]
               /\ OutcomeOf(reqs'[i].op, table, reqs'[i].username)
                    = OutcomeOf(reqs'[i].op, Snapshot(reqs'[i].username),
                                reqs'[i].username)]_vars

\* two requests for different usernames have both been served and have
\* both written, each next to the other's record
C18_Witness ==
    \E i \in 1..NReqs, j \in 1..NReqs :
       /\ reqs[i].username # reqs[j].username
       /\ reqs[i].pc = "done" /\ reqs[j].pc = "done"
       /\ reqs[i].username \in DOMAIN table
       /\ reqs[j].username \in DOMAIN table
       /\ reqs[i].snap # Snapshot(reqs[i].username)
       /\ reqs[j].snap # Snapshot(reqs[j].username)

\* C19: whenever totp_confirmed is true the stored secret is the one the
\* confirming setup_totp verified its code against, also when a login runs
\* between that call's read and its write; a confirmed secret is not replaced.
C19_ConfirmedSecretIsVerifiedSecret ==
    [][/\ \A i \in 1..NReqs :
            (/\ reqs[i].pc = "read"
             /\ reqs[i].op = "setup_totp"
             /\ reqs'[i].pc = "done"
             /\ reqs'[i].resp.status = 200
             /\ totp_confirmed(table'[reqs[i].username]))
              => totp_secret_of(table'[reqs[i].username])
                   = totp_secret_of(reqs[i].snap[reqs[i].username])
       /\ \A u \in DOMAIN table \cap DOMAIN table' :
            (totp_confirmed(table[u]) /\ totp_confirmed(table'[u]))
              => totp_secret_of(table'[u]) = totp_secret_of(table[u])]_vars

====
